---- MODULE Spec2Model ----
(***************************************************************************)
(* Model of server.js (the downloader variant, lines 18-195): the rate     *)
(* limiter mounted on /api/, the /api/info handler with its format         *)
(* processing, and the /api/download handler with its streaming pipe.      *)
(*                                                                         *)
(* JavaScript strings that the code inspects character by character        *)
(* (resolution: parseInt; title: regular-expression replace) are sequences *)
(* of one-character strings.  Strings that are only compared (format_id,   *)
(* ext, vcodec) are TLA+ strings.  A filesize of 0 stands for every falsy  *)
(* size (undefined, null, 0): the code only tests truthiness.              *)
(***************************************************************************)
EXTENDS Integers, Sequences, FiniteSets, TLC

VARIABLES
    pc,         \* position of the request's handler
    req,        \* the request: path, url, format query parameters
    fetch,      \* the promise of getVideoInfo: none, pending, resolved, rejected
    metadata,   \* what getVideoInfo resolved to
    res,        \* the response object
    log,        \* collaborator calls and response writes, in order
    args,       \* the format-specific arguments handed to execStream
    chunks,     \* chunks the tool has written to its stdout so far
    clock,      \* Date.now() of the limiter, in milliseconds
    store,      \* the limiter's per-address window: totalHits, resetTime
    seen,       \* per address: requests at the previous and at the current clock value
    last        \* the limiter's answer to the latest request

vars == <<pc, req, fetch, metadata, res, log, args, chunks, clock, store, seen, last>>

hvars == <<pc, req, fetch, metadata, res, log, args, chunks>>
lvars == <<clock, store, seen, last>>

-----------------------------------------------------------------------------
(* Characters *)

Digits == <<"0", "1", "2", "3", "4", "5", "6", "7", "8", "9">>

HexLetters == <<"a", "b", "c", "d", "e", "f">>

HexCapitals == <<"A", "B", "C", "D", "E", "F">>

\* \w of a JavaScript regular expression: [A-Za-z0-9_]
WordChars ==
    {"a", "b", "c", "d", "e", "f", "g", "h", "i", "j", "k", "l", "m",
     "n", "o", "p", "q", "r", "s", "t", "u", "v", "w", "x", "y", "z",
     "A", "B", "C", "D", "E", "F", "G", "H", "I", "J", "K", "L", "M",
     "N", "O", "P", "Q", "R", "S", "T", "U", "V", "W", "X", "Y", "Z",
     "0", "1", "2", "3", "4", "5", "6", "7", "8", "9", "_"}

\* \s of a JavaScript regular expression (the members that the titles use)
SpaceChars == {" ", "\t", "\n"}

IndexOf(c, tab) ==
    IF \E i \in 1..Len(tab) : tab[i] = c
    THEN CHOOSE i \in 1..Len(tab) : tab[i] = c
    ELSE 0

\* value of a digit in the given radix, -1 when c is no digit of that radix
DigitValue(c, radix) ==
    LET d == IF IndexOf(c, Digits) > 0 THEN IndexOf(c, Digits) - 1
             ELSE IF IndexOf(c, HexLetters) > 0 THEN IndexOf(c, HexLetters) + 9
             ELSE IF IndexOf(c, HexCapitals) > 0 THEN IndexOf(c, HexCapitals) + 9
             ELSE -1
    IN IF d < radix THEN d ELSE -1

RECURSIVE SkipSpace(_)
SkipSpace(s) ==
    IF s /= <<>> /\ Head(s) \in SpaceChars THEN SkipSpace(Tail(s)) ELSE s

RECURSIVE DigitRun(_, _, _)
\* <<number of leading digits of s, their value>>, continuing from acc
DigitRun(s, radix, acc) ==
    IF s /= <<>> /\ DigitValue(Head(s), radix) >= 0
    THEN DigitRun(Tail(s), radix, <<acc[1] + 1, acc[2] * radix + DigitValue(Head(s), radix)>>)
    ELSE acc

\* parseInt(string) with no radix argument: leading white space is skipped,
\* an optional sign is read, a 0x/0X prefix selects radix 16, the longest
\* run of digits is converted, anything after it is ignored.  The result is
\* [nan |-> TRUE, val |-> 0] when there is no digit to read.
ParseInt(str) ==
    LET s0   == SkipSpace(str)
        neg  == s0 /= <<>> /\ Head(s0) = "-"
        s1   == IF s0 /= <<>> /\ Head(s0) \in {"-", "+"} THEN Tail(s0) ELSE s0
        hex  == Len(s1) >= 2 /\ s1[1] = "0" /\ s1[2] \in {"x", "X"}
        s2   == IF hex THEN Tail(Tail(s1)) ELSE s1
        run  == DigitRun(s2, IF hex THEN 16 ELSE 10, <<0, 0>>)
    IN IF run[1] = 0 THEN [nan |-> TRUE, val |-> 0]
       ELSE [nan |-> FALSE, val |-> IF neg THEN 0 - run[2] ELSE run[2]]

\* (parseInt(x) || 0): NaN and 0 are falsy
SortKey(resolution) ==
    LET p == ParseInt(resolution) IN IF p.nan THEN 0 ELSE p.val

-----------------------------------------------------------------------------
(* Bounds of the model *)

\* longest raw format list that is enumerated over the whole catalogue
MaxLen == 2

\* most chunks the tool writes to its stdout during one download
MaxChunks == 2

\* most requests one address sends at one clock value
MaxBurst == 6

\* clock values the limiter is observed at: 0, Tick, ..., MaxTicks * Tick
MaxTicks == 3

-----------------------------------------------------------------------------
(* Raw formats, as the metadata fetch reports them *)

RawFormat(id, ext, resolution, vcodec, note, height, size, approx) ==
    [format_id |-> id, ext |-> ext, resolution |-> resolution, vcodec |-> vcodec,
     format_note |-> note, height |-> height, filesize |-> size,
     filesize_approx |-> approx]

R48 == <<"4", "8", "x", "2", "7">>

RAudio == <<"a", "u", "d", "i", "o", " ", "o", "n", "l", "y">>

R256 == <<"2", "5", "6", "x", "1", "4", "4">>

R426 == <<"4", "2", "6", "x", "2", "4", "0">>

R640 == <<"6", "4", "0", "x", "3", "6", "0">>

R854 == <<"8", "5", "4", "x", "4", "8", "0">>

R1280 == <<"1", "2", "8", "0", "x", "7", "2", "0">>

R1920 == <<"1", "9", "2", "0", "x", "1", "0", "8", "0">>

RUnknown == <<"u", "n", "k", "n", "o", "w", "n">>

RAudioOnlyLabel == <<"A", "u", "d", "i", "o", " ", "O", "n", "l", "y">>

\* A format list in the order the tool reports it (worst first): a storyboard
\* and an audio track without video codec, video formats that repeat
\* (resolution, extension) pairs under different identifiers, a format
\* whose resolution has no numeric prefix, and a format that reports no
\* vcodec at all (held as "") and labels its resolution "Audio Only".
Base ==
    << RawFormat("sb0", "mhtml", R48,     "none", "storyboard", "27",   0, 0),
       RawFormat("140", "m4a",   RAudio,  "none", "medium",     "null", 3, 0),
       RawFormat("160", "mp4",   R256,    "avc1", "144p",       "144",  2, 0),
       RawFormat("278", "webm",  R256,    "vp9",  "144p",       "144",  0, 2),
       RawFormat("133", "mp4",   R426,    "avc1", "",           "240",  0, 0),
       RawFormat("18",  "mp4",   R640,    "avc1", "360p",       "360",  0, 7),
       RawFormat("135", "mp4",   R854,    "avc1", "480p",       "480",  4, 5),
       RawFormat("22",  "mp4",   R1280,   "avc1", "720p",       "720",  0, 0),
       RawFormat("136", "mp4",   R1280,   "avc1", "720p",       "720",  6, 0),
       RawFormat("247", "webm",  R1280,   "vp9",  "720p",       "720",  5, 0),
       RawFormat("137", "mp4",   R1920,   "avc1", "1080p",      "1080", 9, 8),
       RawFormat("248", "webm",  R1920,   "vp9",  "",           "1080", 0, 0),
       RawFormat("399", "mp4",   R1920,   "av01", "1080p",      "1080", 8, 0),
       RawFormat("hls", "mp4",   RUnknown, "h264", "",       "null", 0, 0),
       RawFormat("mp3", "mp3",   RAudioOnlyLabel, "", "",    "null", 1, 0) >>

\* the formats that short lists are enumerated over
Catalogue ==
    { Base[i] : i \in {6, 8, 9, 11, 14, 15} }

RECURSIVE SeqsUpTo(_, _)
SeqsUpTo(S, n) ==
    IF n = 0 THEN { <<>> }
    ELSE LET shorter == SeqsUpTo(S, n - 1)
         IN shorter \cup { Append(s, x) : s \in shorter, x \in S }

Reverse(s) == [i \in 1..Len(s) |-> s[Len(s) + 1 - i]]

\* the tool gives every format of one video its own format_id
UniqueIds(l) ==
    \A i, j \in 1..Len(l) : l[i].format_id = l[j].format_id => i = j

\* every list over Catalogue up to MaxLen, and every window of Base in
\* both directions
RawLists ==
    { l \in SeqsUpTo(Catalogue, MaxLen) : UniqueIds(l) }
    \cup { SubSeq(Base, i, j) : i, j \in 1..Len(Base) }
    \cup { Reverse(SubSeq(Base, i, j)) : i, j \in 1..Len(Base) }

-----------------------------------------------------------------------------
(* Format processing of /api/info *)

\* .filter(f => f.vcodec !== 'none' && f.resolution !== 'audio only')
IsVideo(f) == f.vcodec /= "none" /\ f.resolution /= RAudio

\* f.format_note || f.height + 'p'; the height is held as its decimal
\* string, "null" when the tool reports none
QualityLabel(f) ==
    IF f.format_note /= "" THEN <<f.format_note>> ELSE <<f.height, "p">>

\* .map(f => ({format_id, extension, resolution, quality_label}))
Present(f) ==
    [format_id |-> f.format_id, extension |-> f.ext, resolution |-> f.resolution,
     quality_label |-> QualityLabel(f)]

MapSeq(s) == [i \in 1..Len(s) |-> Present(s[i])]

SamePair(t, v) == t.resolution = v.resolution /\ t.extension = v.extension

\* a.findIndex(t => SamePair(t, v)), 1-based; 0 when nothing matches
FindIndex(a, v) ==
    IF \E k \in 1..Len(a) : SamePair(a[k], v)
    THEN CHOOSE k \in 1..Len(a) :
            SamePair(a[k], v) /\ \A m \in 1..(k - 1) : ~SamePair(a[m], v)
    ELSE 0

RECURSIVE KeepFirst(_, _)
KeepFirst(a, i) ==
    IF i > Len(a) THEN <<>>
    ELSE (IF FindIndex(a, a[i]) = i THEN <<a[i]>> ELSE <<>>) \o KeepFirst(a, i + 1)

DedupNone(a) == a

\* .filter((v, i, a) => a.findIndex(t => ...) === i)
Dedup(a) == KeepFirst(a, 1)

\* the comparator of .sort: negative when a goes before b
CompareAscending(a, b) == SortKey(a.resolution) - SortKey(b.resolution)

Compare(a, b) == SortKey(b.resolution) - SortKey(a.resolution)

\* x put into the sorted sequence s after every element it does not go before
RECURSIVE Insert(_, _)
Insert(s, x) ==
    IF s = <<>> THEN <<x>>
    ELSE IF Compare(x, Head(s)) < 0 THEN <<x>> \o s
    ELSE <<Head(s)>> \o Insert(Tail(s), x)

RECURSIVE Sort(_)
\* Array.prototype.sort: stable, ordered by the comparator
Sort(s) ==
    IF s = <<>> THEN <<>>
    ELSE Insert(Sort(SubSeq(s, 1, Len(s) - 1)), s[Len(s)])

SliceEndOffByOne == 8 + 1

\* the end index of .slice(0, 8)
SliceEnd == 8

Slice(s) == SubSeq(s, 1, IF Len(s) < SliceEnd THEN Len(s) ELSE SliceEnd)

\* the entry that formats.unshift puts first
Mp3Entry ==
    [format_id |-> "mp3", extension |-> "mp3", resolution |-> RAudioOnlyLabel,
     quality_label |-> <<"MP3 Extraction">>]

\* the chain of lines 87-97
Derived(raw) == Slice(Sort(Dedup(MapSeq(SelectSeq(raw, IsVideo)))))

\* lines 87-105: the formats array of the response
ProcessFormats(raw) == <<Mp3Entry>> \o Derived(raw)

-----------------------------------------------------------------------------
(* Requests and metadata *)

\* values of the format query parameter; "" is an empty parameter
FormatParams == {"", "best", "mp3", "MP3", "137", "18", "22"}

VideoUrl == "https://example.com/watch"

\* the query of a request: a parameter is absent (has... = FALSE) or a string
Requests ==
    { [hasUrl |-> hu, url |-> u, hasFormat |-> hf, format |-> f] :
        hu \in BOOLEAN, u \in {"", VideoUrl}, hf \in BOOLEAN, f \in FormatParams }

Queries == { q \in Requests : (~q.hasUrl => q.url = "") /\ (~q.hasFormat => q.format = "") }

TitleFoo == <<"F", "o", "o", ":", " ", "B", "a", "r", "/", "B", "a", "z", "!">>

TitleDotted == <<"m", "y", "-", "c", "l", "i", "p", "_", "2", ".", "m", "p", "3">>

TitleTabbed == <<"a", "\t", "b", "?">>

Titles == {TitleFoo, TitleDotted, TitleTabbed}

\* what getVideoInfo resolves to: title and formats may each be missing
Metadatas ==
    { [hasTitle |-> TRUE, title |-> t, hasFormats |-> TRUE, formats |-> l] :
        t \in Titles, l \in RawLists }
    \cup { [hasTitle |-> TRUE, title |-> t, hasFormats |-> FALSE, formats |-> <<>>] :
        t \in Titles }
    \cup { [hasTitle |-> FALSE, title |-> <<>>, hasFormats |-> hf, formats |-> <<>>] :
        hf \in BOOLEAN }
    \cup { [hasTitle |-> FALSE, title |-> <<>>, hasFormats |-> TRUE, formats |-> Base] }

NoMetadata == [hasTitle |-> FALSE, title |-> <<>>, hasFormats |-> FALSE, formats |-> <<>>]

NoQuery == [hasUrl |-> FALSE, url |-> "", hasFormat |-> FALSE, format |-> ""]

-----------------------------------------------------------------------------
(* The response object *)

\* statusCode is what res.status set (200 until then); sent is the status
\* line that went out with the headers (0 while headersSent is false)
NewResponse ==
    [statusCode |-> 200, headersSent |-> FALSE, sent |-> 0, ended |-> FALSE,
     text |-> "", error |-> "", hasInfo |-> FALSE, hasTitle |-> FALSE,
     title |-> <<>>, formats |-> <<>>, bytes |-> 0,
     disposition |-> <<>>, contentLength |-> 0]

\* res.status(code).send(text): headers and body go out, the response ends;
\* send sets Content-Length to the length of the text
SendText(r, code, text) ==
    [r EXCEPT !.statusCode = code, !.headersSent = TRUE, !.sent = code,
              !.ended = TRUE, !.text = text, !.contentLength = Len(text)]

\* res.status(code).json({error: message})
SendError(r, code, message) ==
    [r EXCEPT !.statusCode = code, !.headersSent = TRUE, !.sent = code,
              !.ended = TRUE, !.error = message]

\* res.json({title, thumbnail, uploader, duration, formats}); thumbnail,
\* uploader and duration are copied from the metadata the way title is
SendInfo(r, m, formats) ==
    [r EXCEPT !.headersSent = TRUE, !.sent = r.statusCode, !.ended = TRUE,
              !.hasInfo = TRUE, !.hasTitle = m.hasTitle, !.title = m.title,
              !.formats = formats]

\* a chunk written through the pipe: the first write sends the headers
WriteChunk(r) ==
    [r EXCEPT !.headersSent = TRUE,
              !.sent = IF r.headersSent THEN r.sent ELSE r.statusCode,
              !.bytes = r.bytes + 1]

\* res.end() from the pipe when the source emits 'end'
EndResponse(r) ==
    [r EXCEPT !.headersSent = TRUE,
              !.sent = IF r.headersSent THEN r.sent ELSE r.statusCode,
              !.ended = TRUE]

-----------------------------------------------------------------------------
(* /api/info *)

MissingOnlyWhenAbsent(q) == ~q.hasUrl

\* !videoUrl: the parameter is absent or the empty string
Missing(q) == ~q.hasUrl \/ q.url = ""

\* lines 75-84: up to the await of getVideoInfo
InfoStart(q) ==
    /\ pc = "idle"
    /\ req' = [path |-> "/api/info", query |-> q]
    /\ IF Missing(q)
       THEN /\ res' = SendError(res, 400, "URL is required")
            /\ log' = Append(log, "respond")
            /\ fetch' = fetch
            /\ pc' = "done"
       ELSE /\ res' = res
            /\ log' = Append(log, "getVideoInfo")
            /\ fetch' = "pending"
            /\ pc' = "info_await"
    /\ UNCHANGED <<metadata, args, chunks>>
    /\ UNCHANGED lvars

\* lines 86-113: getVideoInfo resolved
InfoResolve(m) ==
    /\ pc = "info_await"
    /\ fetch' = "resolved"
    /\ metadata' = m
    /\ res' = SendInfo(res, m, ProcessFormats(IF m.hasFormats THEN m.formats ELSE <<>>))
    /\ log' = Append(log, "respond")
    /\ pc' = "done"
    /\ UNCHANGED <<req, args, chunks>>
    /\ UNCHANGED lvars

\* lines 114-117: getVideoInfo rejected
InfoReject ==
    /\ pc = "info_await"
    /\ fetch' = "rejected"
    /\ res' = SendError(res, 500, "Failed to fetch video information.")
    /\ log' = Append(log, "respond")
    /\ pc' = "done"
    /\ UNCHANGED <<req, metadata, args, chunks>>
    /\ UNCHANGED lvars

-----------------------------------------------------------------------------
(* /api/download *)

\* req.query.format || 'best'
FormatId(q) == IF ~q.hasFormat \/ q.format = "" THEN "best" ELSE q.format

IsMp3AnyCase(formatId) == formatId \in {"mp3", "MP3"}

\* formatId === 'mp3'
IsMp3(formatId) == formatId = "mp3"

\* isMp3 ? 'mp3' : 'mp4'
Extension(formatId) ==
    IF IsMp3(formatId) THEN <<"m", "p", "3">> ELSE <<"m", "p", "4">>

KeptNoSpace(c) == c \in WordChars \/ c = "-"

\* a character outside the class [^\w\s-] stays
Kept(c) == c \in WordChars \/ c \in SpaceChars \/ c = "-"

\* title.replace(/[^\w\s-]/g, '')
Strip(title) == SelectSeq(title, Kept)

\* `${...}.${isMp3 ? 'mp3' : 'mp4'}`
Filename(title, formatId) == Strip(title) \o <<".">> \o Extension(formatId)

\* `attachment; filename="${filename}"`
Disposition(filename) == <<"attachment; filename=\"">> \o filename \o <<"\"">>

\* lines 150-154: the arguments pushed after the fixed ones
FormatArgs(formatId) ==
    IF IsMp3(formatId)
    THEN <<"-x", "--audio-format", "mp3", "--audio-quality", "0">>
    ELSE IF formatId = "best" THEN <<"-f", "bestvideo+bestaudio/best">>
    ELSE <<"-f", formatId, "+bestaudio/best">>

\* metadata.formats.find(f => f.format_id === formatId): the index of the
\* first match, 0 for undefined
Find(formats, formatId) ==
    IF \E k \in 1..Len(formats) : formats[k].format_id = formatId
    THEN CHOOSE k \in 1..Len(formats) :
            /\ formats[k].format_id = formatId
            /\ \A m \in 1..(k - 1) : formats[m].format_id /= formatId
    ELSE 0

SizeOfApproxFirst(f) ==
    IF f.filesize_approx /= 0 THEN f.filesize_approx ELSE f.filesize

\* targetFormat.filesize || targetFormat.filesize_approx; 0 when both are falsy
SizeOf(f) == IF f.filesize /= 0 THEN f.filesize ELSE f.filesize_approx

\* lines 121-134: up to the await of getVideoInfo
DownloadStart(q) ==
    /\ pc = "idle"
    /\ req' = [path |-> "/api/download", query |-> q]
    /\ IF Missing(q)
       THEN /\ res' = SendText(res, 400, "URL is required")
            /\ log' = Append(log, "respond")
            /\ fetch' = fetch
            /\ pc' = "done"
       ELSE /\ res' = res
            /\ log' = Append(log, "getVideoInfo")
            /\ fetch' = "pending"
            /\ pc' = "dl_await"
    /\ UNCHANGED <<metadata, args, chunks>>
    /\ UNCHANGED lvars

\* the catch block of lines 169-172
PreparationError(r) == SendText(r, 500, "Failed to prepare download")

\* lines 136-168: getVideoInfo resolved.  metadata.title.replace and
\* metadata.formats.find throw a TypeError when the field is missing; the
\* catch block answers 500 with the headers set so far.
DownloadResolve(m) ==
    /\ pc = "dl_await"
    /\ fetch' = "resolved"
    /\ metadata' = m
    /\ LET formatId == FormatId(req.query)
           withName == [res EXCEPT !.disposition =
                            Disposition(Filename(m.title, formatId))]
           target   == Find(m.formats, formatId)
           size     == IF target = 0 THEN 0 ELSE SizeOf(m.formats[target])
       IN IF ~m.hasTitle
          THEN /\ res' = PreparationError(res)
               /\ log' = Append(log, "respond")
               /\ args' = args
               /\ pc' = "done"
          ELSE IF ~m.hasFormats
          THEN /\ res' = PreparationError(withName)
               /\ log' = log \o <<"Content-Disposition", "respond">>
               /\ args' = FormatArgs(formatId)
               /\ pc' = "done"
          ELSE /\ res' = IF size /= 0 THEN [withName EXCEPT !.contentLength = size]
                         ELSE withName
               /\ log' = log \o <<"Content-Disposition">>
                             \o (IF size /= 0 THEN <<"Content-Length">> ELSE <<>>)
                             \o <<"execStream">>
               /\ args' = FormatArgs(formatId)
               /\ pc' = "streaming"
    /\ UNCHANGED <<req, chunks>>
    /\ UNCHANGED lvars

DownloadRejectRetry ==
    /\ pc = "dl_await"
    /\ Len(log) < 3
    /\ fetch' = "pending"
    /\ log' = Append(log, "getVideoInfo")
    /\ UNCHANGED <<pc, req, metadata, res, args, chunks>>
    /\ UNCHANGED lvars

\* lines 169-172: getVideoInfo rejected
DownloadReject ==
    /\ pc = "dl_await"
    /\ fetch' = "rejected"
    /\ res' = PreparationError(res)
    /\ log' = Append(log, "respond")
    /\ pc' = "done"
    /\ UNCHANGED <<req, metadata, args, chunks>>
    /\ UNCHANGED lvars

\* line 168: the tool wrote a chunk to stdout and the pipe wrote it to res
ToolData ==
    /\ pc = "streaming"
    /\ chunks < MaxChunks
    /\ chunks' = chunks + 1
    /\ res' = WriteChunk(res)
    /\ log' = IF res.headersSent THEN log ELSE Append(log, "respond")
    /\ UNCHANGED <<pc, req, fetch, metadata, args>>
    /\ UNCHANGED lvars

\* line 168: the tool exited with code 0, the stream emits 'end' and the
\* pipe ends res
ToolEnd ==
    /\ pc = "streaming"
    /\ res' = EndResponse(res)
    /\ log' = IF res.headersSent THEN log ELSE Append(log, "respond")
    /\ pc' = "done"
    /\ UNCHANGED <<req, fetch, metadata, args, chunks>>
    /\ UNCHANGED lvars

\* lines 163-166: the 'error' listener
OnError(r) == IF ~r.headersSent THEN SendText(r, 500, "Download failed") ELSE r

\* lines 163-168: the tool failed and the stream emits 'error'.  pipe does
\* not end its destination when the source fails, and the listener writes
\* nothing once the headers are out: nothing ends res in that case.
ToolError ==
    /\ pc = "streaming"
    /\ res' = OnError(res)
    /\ log' = IF res.headersSent THEN log ELSE Append(log, "respond")
    /\ pc' = "failed"
    /\ UNCHANGED <<req, fetch, metadata, args, chunks>>
    /\ UNCHANGED lvars

-----------------------------------------------------------------------------
(* Specification of one request to the two handlers *)

Addresses == {"10.0.0.1", "10.0.0.2"}

HInit ==
    /\ pc = "idle"
    /\ req = [path |-> "", query |-> NoQuery]
    /\ fetch = "none"
    /\ metadata = NoMetadata
    /\ res = NewResponse
    /\ log = <<>>
    /\ args = <<>>
    /\ chunks = 0

LInit ==
    /\ clock = 0
    /\ store = [a \in Addresses |-> [totalHits |-> 0, resetTime |-> 0]]
    /\ seen = [a \in Addresses |-> [previous |-> 0, current |-> 0]]
    /\ last = [address |-> "", status |-> 0, error |-> "", next |-> FALSE]

Init == HInit /\ LInit

Next ==
    \/ \E q \in Queries : InfoStart(q)
    \/ \E m \in Metadatas : InfoResolve(m)
    \/ InfoReject
    \/ \E q \in Queries : DownloadStart(q)
    \/ \E m \in Metadatas : DownloadResolve(m)
    \/ DownloadReject
    \/ ToolData
    \/ ToolEnd
    \/ ToolError

Spec == Init /\ [][Next]_vars

-----------------------------------------------------------------------------
(* The rate limiter mounted on /api/ *)

\* windowMs: 1 * 60 * 1000
windowMs == 1 * 60 * 1000

maxOffByOne == 10 + 1

\* max: 10
max == 10

\* message: { error: ... }
TooMany == "Too many requests, please try again after a minute."

\* the limiter is observed twice per window
Tick == windowMs \div 2

\* The middleware that rateLimit returns, with its memory store: a fixed
\* window per address that starts at the address's first request after the
\* previous window ran out; a request past max within the window is answered
\* 429 with the message and next() is not called.
Limit(a) ==
    /\ seen[a].current < MaxBurst
    /\ LET old    == store[a]
           window == IF old.resetTime <= clock
                     THEN [totalHits |-> 0, resetTime |-> clock + windowMs]
                     ELSE old
           hit    == [window EXCEPT !.totalHits = window.totalHits + 1]
       IN /\ store' = [store EXCEPT ![a] = hit]
          /\ last' = IF hit.totalHits > max
                     THEN [address |-> a, status |-> 429, error |-> TooMany,
                           next |-> FALSE]
                     ELSE [address |-> a, status |-> 0, error |-> "", next |-> TRUE]
    /\ seen' = [seen EXCEPT ![a].current = seen[a].current + 1]
    /\ UNCHANGED clock
    /\ UNCHANGED hvars

\* time passes
Advance ==
    /\ clock < MaxTicks * Tick
    /\ clock' = clock + Tick
    /\ seen' = [a \in Addresses |-> [previous |-> seen[a].current, current |-> 0]]
    /\ UNCHANGED <<store, last>>
    /\ UNCHANGED hvars

LNext ==
    \/ \E a \in Addresses : Limit(a)
    \/ Advance

SpecLimiter == Init /\ [][LNext]_vars

-----------------------------------------------------------------------------
(* Properties *)

InfoAnswered == req.path = "/api/info" /\ res.hasInfo

Download == req.path = "/api/download"

\* the raw format list the handler worked on; an absent list counts as empty
RawOf(m) == IF m.hasFormats THEN m.formats ELSE <<>>

Occurrences(e) == Cardinality({i \in 1..Len(log) : log[i] = e})

Precedes(e, f) ==
    \E i, j \in 1..Len(log) : i < j /\ log[i] = e /\ log[j] = f

\* the filename inside attachment; filename="..."
FilenameOf(disposition) == SubSeq(disposition, 2, Len(disposition) - 1)

EndsWith(s, suffix) ==
    Len(s) >= Len(suffix) /\ SubSeq(s, Len(s) - Len(suffix) + 1, Len(s)) = suffix

\* the filename without the dot and the three letters of the extension
BaseNameOf(disposition) ==
    SubSeq(FilenameOf(disposition), 1, Len(FilenameOf(disposition)) - 4)

\* C1: the formats array of /api/info has at most 9 entries, its first entry
\* has format_id 'mp3', and for an empty or absent raw list it is exactly the
\* one MP3 entry.
C1_FormatsCappedMp3First ==
    InfoAnswered =>
        /\ Len(res.formats) >= 1
        /\ Len(res.formats) <= 9
        /\ res.formats[1].format_id = "mp3"
        /\ RawOf(metadata) = <<>> =>
              res.formats = << [format_id |-> "mp3", extension |-> "mp3",
                                resolution |-> RAudioOnlyLabel,
                                quality_label |-> <<"MP3 Extraction">>] >>

\* reached: more than 8 distinct video pairs came in and 9 entries went out
C1_Witness ==
    /\ InfoAnswered
    /\ Len(Dedup(MapSeq(SelectSeq(RawOf(metadata), IsVideo)))) > 8
    /\ Len(res.formats) = 9

C3_OrderWithSynthetic ==
    InfoAnswered =>
        \A i, j \in 1..Len(res.formats) :
            i < j => SortKey(res.formats[i].resolution) >= SortKey(res.formats[j].resolution)

\* C3 amended: the entries after the synthetic first one are non-increasing
\* by the numeric prefix of resolution, and no entry with a positive numeric
\* prefix comes after an entry without numeric prefix; the synthetic entry,
\* whose resolution has no numeric prefix, stays first.
C3_DerivedOrder ==
    InfoAnswered =>
        /\ ParseInt(res.formats[1].resolution).nan
        /\ \A i, j \in 2..Len(res.formats) :
              i < j =>
                 /\ SortKey(res.formats[i].resolution) >= SortKey(res.formats[j].resolution)
                 /\ ParseInt(res.formats[i].resolution).nan =>
                       ~(ParseInt(res.formats[j].resolution).val > 0)

\* reached: the raw list came worst first with a resolution without numeric
\* prefix in it, and the answer lists several resolutions
C3_Witness ==
    /\ InfoAnswered
    /\ Len(res.formats) >= 4
    /\ SortKey(res.formats[2].resolution) > SortKey(res.formats[3].resolution)
    /\ ParseInt(res.formats[Len(res.formats)].resolution).nan
    /\ \E i, j \in 1..Len(metadata.formats) :
          /\ i < j
          /\ IsVideo(metadata.formats[i]) /\ IsVideo(metadata.formats[j])
          /\ SortKey(metadata.formats[i].resolution) < SortKey(metadata.formats[j].resolution)

\* C4: a request to /api/info or /api/download without url, or with an empty
\* url, is answered 400, no collaborator call is made for it and no download
\* header is set.
C4_MissingUrlIs400 ==
    (pc /= "idle" /\ (~req.query.hasUrl \/ req.query.url = "")) =>
        /\ pc = "done"
        /\ res.sent = 400 /\ res.ended
        /\ fetch = "none"
        /\ Occurrences("getVideoInfo") = 0
        /\ Occurrences("execStream") = 0
        /\ Occurrences("Content-Disposition") = 0
        /\ Occurrences("Content-Length") = 0
        /\ res.disposition = <<>>
        /\ res.bytes = 0

\* reached: /api/download with an empty url parameter was answered
C4_Witness ==
    /\ Download
    /\ req.query.hasUrl /\ req.query.url = ""
    /\ res.sent = 400


\* the requests of address a inside its current window, counted by the clock
\* values they came at
InWindow(a) ==
    IF store[a].resetTime - 60000 = clock
    THEN seen[a].current
    ELSE seen[a].previous + seen[a].current

C6_FooBarBazExample ==
    (Download /\ res.disposition /= <<>> /\ metadata.title = TitleFoo) =>
        BaseNameOf(res.disposition) = <<"F", "o", "o", " ", "B", "a", "r", " ", "B", "a", "z">>

\* the positions of a title whose character is a word character, white
\* space or a hyphen
KeptPositions(title) ==
    {i \in 1..Len(title) : title[i] \in WordChars \cup {" ", "\t", "\n", "-"}}

\* C6 amended: the base name is the title without its characters other than
\* word characters, white space and hyphens, nothing put in their place: the
\* title 'Foo: Bar/Baz!' yields 'Foo BarBaz'.
C6_TitleStripped ==
    (Download /\ res.disposition /= <<>>) =>
        LET base == BaseNameOf(res.disposition)
            kept == KeptPositions(metadata.title)
        IN /\ Len(base) = Cardinality(kept)
           /\ \A i \in kept :
                 base[Cardinality({k \in kept : k <= i})] = metadata.title[i]
           /\ metadata.title = TitleFoo => base = <<"F", "o", "o", " ", "B", "a", "r", "B", "a", "z">>

\* reached: a download of the title 'Foo: Bar/Baz!' got its filename
C6_Witness ==
    /\ Download
    /\ pc = "streaming"
    /\ metadata.title = TitleFoo
    /\ Len(BaseNameOf(res.disposition)) = 10

\* C7: the filename ends in '.mp3' when the format parameter is the string
\* 'mp3' and in '.mp4' for every other value, the default included.
C7_ExtensionByFormat ==
    (Download /\ res.disposition /= <<>>) =>
        LET name == FilenameOf(res.disposition)
        IN IF req.query.hasFormat /\ req.query.format = "mp3"
           THEN EndsWith(name, <<".", "m", "p", "3">>)
           ELSE EndsWith(name, <<".", "m", "p", "4">>)

\* reached: a download with format=mp3 is streaming under an .mp3 name
C7_Witness ==
    /\ Download
    /\ pc = "streaming"
    /\ req.query.format = "mp3"
    /\ EndsWith(FilenameOf(res.disposition), <<".", "m", "p", "3">>)

\* C8: a download fetches the metadata at most once and before streaming
\* mode, invokes streaming mode at most once and only after the fetch
\* succeeded; a failed fetch is answered 500 'Failed to prepare download'
\* with streaming mode never invoked, nothing streamed and no call repeated.
C8_FetchOnceThenStream ==
    Download =>
        /\ Occurrences("getVideoInfo") <= 1
        /\ Occurrences("execStream") <= 1
        /\ Occurrences("execStream") = 1 =>
              (fetch = "resolved" /\ Precedes("getVideoInfo", "execStream"))
        /\ fetch = "rejected" =>
              /\ pc = "done"
              /\ res.sent = 500 /\ res.ended
              /\ res.text = "Failed to prepare download"
              /\ Occurrences("execStream") = 0
              /\ Occurrences("getVideoInfo") = 1
              /\ res.bytes = 0 /\ chunks = 0

\* reached: the metadata fetch of a download failed
C8_Witness ==
    /\ Download
    /\ fetch = "rejected"
    /\ res.sent = 500

\* C9: once the tool has reported an error, the request has exactly one
\* response status and the response has ended: with the headers already out
\* no error status is written and the partial body ends; otherwise the answer
\* is 500 'Download failed'.
C9_ToolErrorEndsResponse ==
    pc = "failed" =>
        /\ res.ended
        /\ Occurrences("respond") = 1
        /\ res.bytes > 0 => (res.sent = 200 /\ res.text = "")
        /\ res.bytes = 0 => (res.sent = 500 /\ res.text = "Download failed")

\* the raw entries whose identifier is the requested one
Matches(formats, formatId) ==
    {k \in 1..Len(formats) : formats[k].format_id = formatId}

\* C10: when streaming mode is invoked, Content-Length is set exactly when
\* the requested identifier matches a raw entry that carries a size, to the
\* exact size when there is one and to the approximate size otherwise, and it
\* was set before the invocation; without a matching entry no Content-Length
\* is set and the download proceeds.
C10_ContentLengthWhenSized ==
    (Download /\ fetch = "resolved" /\ metadata.hasTitle /\ metadata.hasFormats) =>
        LET id    == IF req.query.hasFormat /\ req.query.format /= ""
                     THEN req.query.format ELSE "best"
            found == Matches(metadata.formats, id)
            sized == {k \in found : metadata.formats[k].filesize > 0
                                    \/ metadata.formats[k].filesize_approx > 0}
        IN /\ Occurrences("execStream") = 1
           /\ Occurrences("Content-Length") = (IF sized /= {} THEN 1 ELSE 0)
           /\ sized /= {} => Precedes("Content-Length", "execStream")
           /\ pc = "streaming" =>
                 /\ sized = {} => res.contentLength = 0
                 /\ \A k \in sized :
                       res.contentLength =
                          IF metadata.formats[k].filesize > 0
                          THEN metadata.formats[k].filesize
                          ELSE metadata.formats[k].filesize_approx

\* reached: a download of a format that has both sizes is streaming
C10_Witness ==
    /\ Download
    /\ pc = "streaming"
    /\ req.query.format = "137"
    /\ res.contentLength = 9
    /\ \E k \in 1..Len(metadata.formats) :
          /\ metadata.formats[k].format_id = "137"
          /\ metadata.formats[k].filesize_approx = 8

====
